---- MODULE Spec2Model ----
(***************************************************************************)
(* A model of the Git state-synchronisation core of Claudable's API:       *)
(*   app/api/git_source_control.py, app/api/git.py, app/api/commits.py,    *)
(*   app/api/workspace.py, app/api/git_projects.py, app/services/git_ops.py*)
(* Text is modelled as sequences of one-character strings, so that         *)
(* stripping, splitting and slicing are computed as the code computes them.*)
(***************************************************************************)
EXTENDS Integers, Sequences, FiniteSets, TLC

VARIABLES
    \* ---- status parsing (git_source_control.get_git_status, git_ops.get_status)
    st_pc,          \* "git" | "parse"
    st_entries,     \* what `git status` has to report: <<[x, y, path, orig]>>
    st_lines,       \* get_git_status: lines of status_output still to parse
    st_resp,        \* get_git_status: [modified_files, staged_files, untracked_files]
    st_seen,        \* get_git_status: (index_status, worktree_status, file_path) per line
    ops_lines,      \* get_status: lines of result still to parse
    ops_status,     \* get_status: [modified, staged, untracked]
    ops_seen,       \* get_status: (index_status, working_status, file_path) per line
    \* ---- workspaces (workspace.py)
    ws_rows,        \* the project table: id -> row
    ws_repo,        \* local git projects on disk: name -> [kind, branches]
    ws_resp,        \* the answer to the last request: [op, id, code]
    \* ---- repository resolution (git_source_control.py, git.py, commits.py)
    rs_row,         \* the project table: project id -> NoProject | [repo_path]
    rs_disk,        \* the filesystem: path -> "absent" | "dir" | "repo" (a dir with .git)
    rs_req,         \* the request answered last: [route, outcome, repo, git_checked, cmds]
    \* ---- one repository's HEAD tree, index and working tree (file -> version, 0 = no file)
    g_head,
    g_index,
    g_work,
    g_res,          \* the operation answered last: [op, files, success, before]
    g_outside,      \* whether the file OutsideFile, which is not in the repository, exists
    \* ---- one call of a git_ops function, command by command
    o_pc,           \* "idle" | "running" | "waiting" (on a git process) | "returned" | "raised"
    o_op,           \* [name, url, again]: the function called, add_remote's remote_url
    o_trace,        \* the git commands run so far: <<[cmd, arg, exit, stderr, out, remote]>>
    o_ret,          \* what the call returned or raised: [kind, success, error]
    o_remote,       \* origin's branch against the local one: "empty" | "same" | "behind" | "diverged"
    o_repo,         \* [branch, url, upstream, head]: HEAD's branch (<<>> when detached),
                    \* origin's URL (None without a remote), whether the branch has an
                    \* upstream, the commit HEAD resolves to (commits are numbered)
    \* ---- branch listing (git_projects.get_project_branches, get_git_info)
    br_repo,        \* [local, remote, head]: which of BranchNames exist locally and on
                    \* origin, the branch checked out (0 when HEAD is detached)
    br_branches,    \* get_project_branches: <<[name, is_current, is_remote]>>
    br_info,        \* get_git_info: info["branches"]
    \* ---- cloning (git_projects.clone_repository and its background task)
    cl_fs,          \* project name -> the directory at its clone path: [owner, complete],
                    \* owner the task whose git clone created it, 0 when there is none
    cl_task,        \* task -> [pc, git_url, project_name, outcome]
    cl_resp,        \* the clone request answered last: [code, git_url, asked, project_name]
    \* ---- project detection (project_detector.is_frontend_project)
    pd_repo,        \* [exists, package_json, dirs]: the repository path, the content of
                    \* its package.json, whether it has one of the frontend directories
    pd_ret          \* what the call gave: [called, raised, is_frontend, reason]

stVars == <<st_pc, st_entries, st_lines, st_resp, st_seen, ops_lines, ops_status, ops_seen>>
wsVars == <<ws_rows, ws_repo, ws_resp>>
rsVars == <<rs_row, rs_disk, rs_req>>
gVars == <<g_head, g_index, g_work, g_res, g_outside>>
oVars == <<o_pc, o_op, o_trace, o_ret, o_remote, o_repo>>

brVars == <<br_repo, br_branches, br_info>>
clVars == <<cl_fs, cl_task, cl_resp>>
pdVars == <<pd_repo, pd_ret>>

vars == <<stVars, wsVars, rsVars, gVars, oVars, brVars, clVars, pdVars>>

\* what the actions of each part leave alone
stOthers == <<wsVars, rsVars, gVars, oVars, brVars, clVars, pdVars>>
wsOthers == <<stVars, rsVars, gVars, oVars, brVars, clVars, pdVars>>
rsOthers == <<stVars, wsVars, gVars, oVars, brVars, clVars, pdVars>>
gOthers == <<stVars, wsVars, rsVars, oVars, brVars, clVars, pdVars>>
oOthers == <<stVars, wsVars, rsVars, gVars, brVars, clVars, pdVars>>
brOthers == <<stVars, wsVars, rsVars, gVars, oVars, clVars, pdVars>>
clOthers == <<stVars, wsVars, rsVars, gVars, oVars, brVars, pdVars>>
pdOthers == <<stVars, wsVars, rsVars, gVars, oVars, brVars, clVars>>

(***************************************************************************)
(* Text helpers: Python's str.strip, str.split, slicing, substring search. *)
(***************************************************************************)
NL == "\n"
SP == " "

\* s.lstrip(chars), s.rstrip(chars): chars is a set of characters
RECURSIVE LStrip(_, _)
LStrip(s, chars) == IF s # <<>> /\ Head(s) \in chars THEN LStrip(Tail(s), chars) ELSE s

RECURSIVE RStrip(_, _)
RStrip(s, chars) ==
    IF s # <<>> /\ s[Len(s)] \in chars THEN RStrip(SubSeq(s, 1, Len(s) - 1), chars) ELSE s

\* s.strip(): whitespace off both ends
Strip(s) == RStrip(LStrip(s, {SP, NL}), {SP, NL})

\* s[k:] with a 0-based start k
From(s, k) == SubSeq(s, k + 1, Len(s))

\* s.find(sub) as a 1-based position, 0 when sub does not occur
Find(s, sub) ==
    LET hits == {i \in 1..(Len(s) - Len(sub) + 1) : SubSeq(s, i, i + Len(sub) - 1) = sub}
    IN  IF hits = {} THEN 0 ELSE CHOOSE i \in hits : \A j \in hits : i <= j

\* s.split(sep)
RECURSIVE Split(_, _)
Split(s, sep) ==
    LET i == Find(s, sep)
    IN  IF i = 0 THEN <<s>>
        ELSE <<SubSeq(s, 1, i - 1)>> \o Split(From(s, i - 1 + Len(sep)), sep)

\* s.startswith(prefix)
StartsWith(s, prefix) == Len(s) >= Len(prefix) /\ SubSeq(s, 1, Len(prefix)) = prefix

\* s.replace(old, new): every occurrence, from the left
RECURSIVE Replace(_, _, _)
Replace(s, old, new) ==
    LET i == Find(s, old)
    IN  IF i = 0 THEN s
        ELSE SubSeq(s, 1, i - 1) \o new \o Replace(From(s, i - 1 + Len(old)), old, new)

Arrow == <<SP, "-", ">", SP>>

(***************************************************************************)
(* What git prints for `git status --porcelain`: one "XY path" line per    *)
(* entry ("XY old -> new" for a rename), each ended by a newline.          *)
(***************************************************************************)
MaxFiles == 2

AllPaths == << <<"a">>, <<"b", "c">>, <<"d">>, <<"e", "f">> >>

Codes == { <<SP, "M">>, <<SP, "D">>, <<"M", SP>>, <<"M", "M">>, <<"A", SP>>,
           <<"A", "M">>, <<"D", SP>>, <<"R", SP>>, <<"?", "?">> }

\* a file without changes has no line
Clean == <<SP, SP>>

Entry(i, code) ==
    [x |-> code[1], y |-> code[2], path |-> AllPaths[i],
     orig |-> IF code[1] = "R" THEN <<"o">> \o AllPaths[i] ELSE <<>>]

\* tracked changes first, untracked entries after them, each in path order
RECURSIVE EntriesOf(_, _, _)
EntriesOf(assign, i, untrackedPass) ==
    IF i > MaxFiles THEN <<>>
    ELSE (IF assign[i] # Clean /\ ((assign[i] = <<"?", "?">>) <=> untrackedPass)
          THEN <<Entry(i, assign[i])>> ELSE <<>>)
         \o EntriesOf(assign, i + 1, untrackedPass)

PorcelainLine(e) ==
    <<e.x, e.y, SP>> \o (IF e.orig # <<>> THEN e.orig \o Arrow \o e.path ELSE e.path)

RECURSIVE Porcelain(_)
Porcelain(entries) ==
    IF entries = <<>> THEN <<>>
    ELSE PorcelainLine(Head(entries)) \o <<NL>> \o Porcelain(Tail(entries))

(***************************************************************************)
(* run_git_command / _run on success: the captured stdout, stripped.       *)
(***************************************************************************)
CapturedStdout(stdout) == Strip(stdout)

EmptyResp == [modified_files |-> <<>>, staged_files |-> <<>>, untracked_files |-> <<>>]
EmptyStatus == [modified |-> <<>>, staged |-> <<>>, untracked |-> <<>>]

StInit ==
    /\ st_pc = "git"
    /\ \E assign \in [1..MaxFiles -> Codes \cup {Clean}] :
          st_entries = EntriesOf(assign, 1, FALSE) \o EntriesOf(assign, 1, TRUE)
    /\ st_lines = <<>>
    /\ st_resp = EmptyResp
    /\ st_seen = <<>>
    /\ ops_lines = <<>>
    /\ ops_status = EmptyStatus
    /\ ops_seen = <<>>

StIdle ==
    /\ st_pc = "idle"
    /\ st_entries = <<>>
    /\ st_lines = <<>>
    /\ st_resp = EmptyResp
    /\ st_seen = <<>>
    /\ ops_lines = <<>>
    /\ ops_status = EmptyStatus
    /\ ops_seen = <<>>

\* git status --porcelain has exited zero; both callers split the stripped text
RunGitStatus ==
    /\ st_pc = "git"
    /\ st_pc' = "parse"
    /\ st_lines' = Split(CapturedStdout(Porcelain(st_entries)), <<NL>>)
    /\ ops_lines' = Split(CapturedStdout(Porcelain(st_entries)), <<NL>>)
    /\ UNCHANGED <<st_entries, st_resp, st_seen, ops_status, ops_seen>>
    /\ UNCHANGED stOthers

\* get_git_status: <<index_status, worktree_status, file_path>> of one line
GscFields(line) ==
    LET raw == IF Len(line) > 3 THEN From(line, 3) ELSE <<>>
    IN  << IF Len(line) > 0 THEN line[1] ELSE SP,
           IF Len(line) > 1 THEN line[2] ELSE SP,
           IF Find(raw, Arrow) # 0 THEN Split(raw, Arrow)[2] ELSE raw >>

GitFileStatus(p, s, b) == [path |-> p, status |-> s, staged |-> b]

\* get_git_status: the three lists after one more line
GscClassify(resp, line) ==
    LET index_status == GscFields(line)[1]
        worktree_status == GscFields(line)[2]
        file_path == GscFields(line)[3]
        r1 == IF index_status # SP
              THEN [resp EXCEPT !.staged_files =
                        Append(@, GitFileStatus(file_path, index_status, TRUE))]
              ELSE resp
    IN  IF worktree_status # SP
        THEN IF worktree_status = "?"
             THEN [r1 EXCEPT !.untracked_files =
                        Append(@, GitFileStatus(file_path, "U", FALSE))]
             ELSE [r1 EXCEPT !.modified_files =
                        Append(@, GitFileStatus(file_path, worktree_status, FALSE))]
        ELSE r1

\* one iteration of get_git_status's loop over status_output.split('\n')
GscParseLine ==
    /\ st_pc = "parse"
    /\ st_lines # <<>>
    /\ LET line == Head(st_lines)
       IN  IF Strip(line) = <<>>
           THEN UNCHANGED <<st_resp, st_seen>>
           ELSE /\ st_resp' = GscClassify(st_resp, line)
                /\ st_seen' = Append(st_seen, GscFields(line))
    /\ st_lines' = Tail(st_lines)
    /\ UNCHANGED <<st_pc, st_entries, ops_lines, ops_status, ops_seen>>
    /\ UNCHANGED stOthers

\* get_status: the three lists after one more line
OpsClassify(status, line) ==
    LET index_status == line[1]
        working_status == line[2]
        file_path == From(line, 3)
        s1 == IF index_status = "?"
              THEN [status EXCEPT !.untracked = Append(@, file_path)]
              ELSE IF index_status \in {"A", "M", "D", "R", "C"}
                   THEN [status EXCEPT !.staged = Append(@, file_path)]
                   ELSE status
    IN  IF working_status \in {"M", "D"}
        THEN [s1 EXCEPT !.modified = Append(@, file_path)]
        ELSE s1

\* one iteration of get_status's loop over result.splitlines()
OpsParseLine ==
    /\ st_pc = "parse"
    /\ ops_lines # <<>>
    /\ LET line == Head(ops_lines)
       IN  IF Len(line) < 3
           THEN UNCHANGED <<ops_status, ops_seen>>
           ELSE /\ ops_status' = OpsClassify(ops_status, line)
                /\ ops_seen' = Append(ops_seen, <<line[1], line[2], From(line, 3)>>)
    /\ ops_lines' = Tail(ops_lines)
    /\ UNCHANGED <<st_pc, st_entries, st_lines, st_resp, st_seen>>
    /\ UNCHANGED stOthers

StatusNext == RunGitStatus \/ GscParseLine \/ OpsParseLine

GscDone == st_pc = "parse" /\ st_lines = <<>>
OpsDone == st_pc = "parse" /\ ops_lines = <<>>


(***************************************************************************)
(* Workspaces (workspace.py): project rows linked to a local git project   *)
(* and a branch. The handlers are coroutines without an await between      *)
(* their database reads and writes, so each runs as one step.              *)
(***************************************************************************)
MaxWorkspaces == 2

LocalRepos == {"app"}
Branches == {"main", "dev"}
WorkspaceIds == 1..MaxWorkspaces
\* a project row that is no workspace (local_git_project_name is None)
PlainId == 0
NoRow == [kind |-> "none"]
PlainRow == [kind |-> "plain"]

WorkspaceRow(name, branch, available) ==
    [kind |-> "workspace", local_git_project_name |-> name, current_branch |-> branch,
     branches |-> [all |-> available, current |-> branch]]

\* get_git_info(path).get("branches", []): the live branch list, [] without .git
LiveBranches(name) == IF ws_repo[name].kind = "git" THEN ws_repo[name].branches ELSE {}

\* what an answer says about branches: the project and branch asked for, and
\* the branches the answer lists
NoBranch == [name |-> "none", branch |-> "none", available |-> {}]
About(name, branch_name, available) ==
    [name |-> name, branch |-> branch_name, available |-> available]

WsInit ==
    /\ ws_rows = [i \in WorkspaceIds \cup {PlainId} |-> IF i = PlainId THEN PlainRow ELSE NoRow]
    /\ ws_repo = [n \in LocalRepos |-> [kind |-> "git", branches |-> {"main"}]]
    /\ ws_resp = [op |-> "none", id |-> PlainId, code |-> 0, about |-> NoBranch]

WsIdle ==
    /\ ws_rows = <<>>
    /\ ws_repo = <<>>
    /\ ws_resp = [op |-> "none", id |-> PlainId, code |-> 0, about |-> NoBranch]

WsAnswer(op, id, code, about) ==
    /\ ws_resp' = [op |-> op, id |-> id, code |-> code, about |-> about]
    /\ UNCHANGED ws_repo
    /\ UNCHANGED wsOthers

\* POST /api/workspace/create
create_workspace(name, branch_name) ==
    LET available_branches == LiveBranches(name)
        existing == {i \in DOMAIN ws_rows :
                        /\ ws_rows[i].kind = "workspace"
                        /\ ws_rows[i].local_git_project_name = name
                        /\ ws_rows[i].current_branch = branch_name}
        free == {i \in WorkspaceIds : ws_rows[i] = NoRow}
        asked == About(name, branch_name, {})
    IN  IF ws_repo[name].kind = "absent"
        THEN WsAnswer("create", PlainId, 404, asked) /\ UNCHANGED ws_rows
        ELSE IF ws_repo[name].kind # "git"
        THEN WsAnswer("create", PlainId, 400, asked) /\ UNCHANGED ws_rows
        ELSE IF branch_name \notin available_branches
        THEN /\ WsAnswer("create", PlainId, 400, About(name, branch_name, available_branches))
             /\ UNCHANGED ws_rows
        ELSE IF existing # {}
        THEN WsAnswer("create", PlainId, 409, asked) /\ UNCHANGED ws_rows
        ELSE \E id \in free :
                /\ ws_rows' = [ws_rows EXCEPT ![id] =
                                  WorkspaceRow(name, branch_name, available_branches)]
                /\ WsAnswer("create", id, 200, About(name, branch_name, available_branches))

\* switch_workspace_branch taking the branch list from the row's cache
SwitchTrustingCache(workspace_id, branch_name) ==
    LET project == ws_rows[workspace_id]
    IN  IF project = NoRow
        THEN WsAnswer("switch", workspace_id, 404, NoBranch) /\ UNCHANGED ws_rows
        ELSE IF project.kind = "plain"
        THEN WsAnswer("switch", workspace_id, 400, NoBranch) /\ UNCHANGED ws_rows
        ELSE LET name == project.local_git_project_name
                 available_branches == project.branches.all
             IN  IF ws_repo[name].kind = "absent"
                 THEN /\ WsAnswer("switch", workspace_id, 404, About(name, branch_name, {}))
                      /\ UNCHANGED ws_rows
                 ELSE IF branch_name \notin available_branches
                 THEN /\ WsAnswer("switch", workspace_id, 400,
                                  About(name, branch_name, available_branches))
                      /\ UNCHANGED ws_rows
                 ELSE /\ ws_rows' = [ws_rows EXCEPT ![workspace_id] =
                             WorkspaceRow(name, branch_name, available_branches)]
                      /\ WsAnswer("switch", workspace_id, 200, About(name, branch_name, {}))

\* POST /api/workspace/{workspace_id}/switch-branch
switch_workspace_branch(workspace_id, branch_name) ==
    LET project == ws_rows[workspace_id]
    IN  IF project = NoRow
        THEN WsAnswer("switch", workspace_id, 404, NoBranch) /\ UNCHANGED ws_rows
        ELSE IF project.kind = "plain"
        THEN WsAnswer("switch", workspace_id, 400, NoBranch) /\ UNCHANGED ws_rows
        ELSE LET name == project.local_git_project_name
                 available_branches == LiveBranches(name)
             IN  IF ws_repo[name].kind = "absent"
                 THEN /\ WsAnswer("switch", workspace_id, 404, About(name, branch_name, {}))
                      /\ UNCHANGED ws_rows
                 ELSE IF branch_name \notin available_branches
                 THEN /\ WsAnswer("switch", workspace_id, 400,
                                  About(name, branch_name, available_branches))
                      /\ UNCHANGED ws_rows
                 ELSE /\ ws_rows' = [ws_rows EXCEPT ![workspace_id] =
                             WorkspaceRow(name, branch_name, available_branches)]
                      /\ WsAnswer("switch", workspace_id, 200, About(name, branch_name, {}))

\* delete_workspace without the lookup of the row
DeleteWithoutLookup(workspace_id) ==
    /\ ws_rows' = [ws_rows EXCEPT ![workspace_id] = NoRow]
    /\ WsAnswer("delete", workspace_id, 200, NoBranch)

\* DELETE /api/workspace/{workspace_id}
delete_workspace(workspace_id) ==
    LET project == ws_rows[workspace_id]
    IN  IF project = NoRow
        THEN WsAnswer("delete", workspace_id, 404, NoBranch) /\ UNCHANGED ws_rows
        ELSE IF project.kind = "plain"
        THEN WsAnswer("delete", workspace_id, 400, NoBranch) /\ UNCHANGED ws_rows
        ELSE /\ ws_rows' = [ws_rows EXCEPT ![workspace_id] = NoRow]
             /\ WsAnswer("delete", workspace_id, 200, NoBranch)

\* outside this system: branches are created and deleted, the directory is
\* removed, recreated or re-initialised
LocalRepoChanges ==
    \E n \in LocalRepos, k \in {"absent", "plain", "git"}, bs \in SUBSET Branches :
        /\ (k = "git") <=> (bs # {})
        /\ ws_repo' = [ws_repo EXCEPT ![n] = [kind |-> k, branches |-> bs]]
        /\ ws_repo' # ws_repo
        /\ UNCHANGED <<ws_rows, ws_resp>>
        /\ UNCHANGED wsOthers

WorkspaceNext ==
    \/ \E n \in LocalRepos, b \in Branches : create_workspace(n, b)
    \/ \E i \in WorkspaceIds \cup {PlainId}, b \in Branches : switch_workspace_branch(i, b)
    \/ \E i \in WorkspaceIds \cup {PlainId} : delete_workspace(i)
    \/ LocalRepoChanges

(***************************************************************************)
(* From a project id to a repository path, and the git commands a route    *)
(* then runs there. rs_req.cmds lists the git subcommands the handler      *)
(* spawns in the resolved directory when each of them exits zero.          *)
(***************************************************************************)
ProjectIds == {"p1"}
None == <<>>
NoProject == [kind |-> "none", repo_path |-> None]

\* os.path.join(settings.projects_root, project_id, "repo")
Conventional(project_id) == <<"projects_root", project_id, "repo">>
\* a repo_path outside the old layout
Custom(project_id) == <<"elsewhere", project_id>>
\* Path(settings.local_git_projects_root) / project_name
LocalProject(project_name) == <<"local_git_projects_root", project_name>>

DiskPaths == UNION {{Conventional(p), Custom(p), LocalProject(p)} : p \in ProjectIds}
RepoPaths(p) == {None, Custom(p), Conventional(p)}

Exists(path) == path \in DOMAIN rs_disk /\ rs_disk[path] # "absent"
HasDotGit(path) == path \in DOMAIN rs_disk /\ rs_disk[path] = "repo"

GscRoutes == {"status", "history", "stage", "unstage", "commit", "push", "diff", "discard"}
GitRoutes == {"status", "diff", "stage", "unstage", "discard", "stage-all", "unstage-all",
              "commit"}
CommitsRoutes == {"commits", "commit_diff", "revert"}

GitCommands(api, route) ==
    CASE route \in {"status"} -> <<"status">>
      [] route \in {"history", "commits"} -> <<"log">>
      [] route \in {"stage", "stage-all"} -> <<"add">>
      [] route \in {"unstage", "unstage-all"} -> <<"reset">>
      [] route = "commit" -> IF api = "gsc" THEN <<"add", "commit">> ELSE <<"commit">>
      [] route = "push" -> <<"branch", "push">>
      [] route = "diff" -> <<"diff">>
      [] route = "discard" -> IF api = "gsc" THEN <<"ls-files", "checkout">> ELSE <<"checkout">>
      [] route = "commit_diff" -> <<"show">>
      [] route = "revert" -> <<"reset --hard">>
      [] route = "checkout" -> <<"show-ref", "checkout">>

NoRequest == [api |-> "none", route |-> "none", project_id |-> None, outcome |-> "none",
              repo |-> None, git_checked |-> FALSE, cmds |-> <<>>]

Answer(api, route, p, outcome, repo, checked) ==
    /\ rs_req' = [api |-> api, route |-> route, project_id |-> p, outcome |-> outcome,
                  repo |-> repo, git_checked |-> checked,
                  cmds |-> IF outcome = "ran" THEN GitCommands(api, route) ELSE <<>>]
    /\ UNCHANGED <<rs_row, rs_disk>>
    /\ UNCHANGED rsOthers

\* the two paths tried in the other order: what C7 has to tell from the code
ResolveFallbackFirst(project_id) ==
    IF Exists(Conventional(project_id)) THEN Conventional(project_id)
    ELSE IF rs_row[project_id].repo_path # None /\ Exists(rs_row[project_id].repo_path)
         THEN rs_row[project_id].repo_path
         ELSE None

\* git_source_control.py: repo_path = row.repo_path, else the old layout's path
ResolveRepoPath(project_id) ==
    LET repo_path == rs_row[project_id].repo_path
    IN  IF repo_path = None \/ ~Exists(repo_path)
        THEN IF Exists(Conventional(project_id)) THEN Conventional(project_id) ELSE None
        ELSE repo_path

\* a route of git_source_control.py (prefix /api/projects/{project_id}/git)
GscRoute(route, project_id) ==
    IF rs_row[project_id] = NoProject
    THEN Answer("gsc", route, project_id, "Project not found", None, FALSE)
    ELSE LET repo_path == ResolveRepoPath(project_id)
         IN  IF repo_path = None
             THEN Answer("gsc", route, project_id, "Repository not found", None, FALSE)
             ELSE IF route = "status"
                  THEN IF ~HasDotGit(repo_path)
                       THEN Answer("gsc", route, project_id, "Not a Git repository",
                                   repo_path, TRUE)
                       ELSE Answer("gsc", route, project_id, "ran", repo_path, TRUE)
                  ELSE Answer("gsc", route, project_id, "ran", repo_path, FALSE)

\* a route of git.py (prefix /api/git/{project_id})
GitRoute(route, project_id) ==
    IF rs_row[project_id] = NoProject
    THEN Answer("git", route, project_id, "Project not found", None, FALSE)
    ELSE LET repo == Conventional(project_id)
         IN  IF ~Exists(repo)
             THEN Answer("git", route, project_id, "Repository not found", None, FALSE)
             ELSE Answer("git", route, project_id, "ran", repo, FALSE)

\* a route of commits.py (prefix /api/commits/{project_id}); subprocess.run
\* raises before spawning git when its cwd does not exist
CommitsRoute(route, project_id) ==
    IF rs_row[project_id] = NoProject
    THEN Answer("commits", route, project_id, "Project not found", None, FALSE)
    ELSE LET repo == Conventional(project_id)
         IN  IF ~Exists(repo)
             THEN Answer("commits", route, project_id, "spawn failed", repo, FALSE)
             ELSE Answer("commits", route, project_id, "ran", repo, FALSE)

\* git_projects.checkout_branch (POST /api/git-projects/{project_name}/checkout)
checkout_branch(project_name) ==
    LET project_path == LocalProject(project_name)
    IN  IF ~Exists(project_path)
        THEN Answer("git-projects", "checkout", project_name, "Project not found", None, FALSE)
        ELSE IF ~HasDotGit(project_path)
        THEN Answer("git-projects", "checkout", project_name, "Not a Git repository",
                    project_path, TRUE)
        ELSE Answer("git-projects", "checkout", project_name, "ran", project_path, TRUE)

\* outside the routes above: projects are registered, re-pointed and deleted,
\* directories appear and vanish; the answer of the last request is then past
ProjectTableChanges ==
    \E p \in ProjectIds :
      \E row \in {NoProject} \cup {[kind |-> "project", repo_path |-> rp] : rp \in RepoPaths(p)} :
        /\ rs_row' = [rs_row EXCEPT ![p] = row]
        /\ rs_row' # rs_row
        /\ rs_req' = NoRequest
        /\ UNCHANGED rs_disk
        /\ UNCHANGED rsOthers

DiskChanges ==
    \E path \in DiskPaths, k \in {"absent", "dir", "repo"} :
        /\ rs_disk' = [rs_disk EXCEPT ![path] = k]
        /\ rs_disk' # rs_disk
        /\ rs_req' = NoRequest
        /\ UNCHANGED rs_row
        /\ UNCHANGED rsOthers

RsInit ==
    /\ rs_row = [p \in ProjectIds |-> NoProject]
    /\ rs_disk = [path \in DiskPaths |-> "absent"]
    /\ rs_req = NoRequest

RsIdle ==
    /\ rs_row = <<>>
    /\ rs_disk = <<>>
    /\ rs_req = NoRequest

ResolveNext ==
    \/ \E r \in GscRoutes, p \in ProjectIds : GscRoute(r, p)
    \/ \E r \in GitRoutes, p \in ProjectIds : GitRoute(r, p)
    \/ \E r \in CommitsRoutes, p \in ProjectIds : CommitsRoute(r, p)
    \/ \E p \in ProjectIds : checkout_branch(p)
    \/ ProjectTableChanges
    \/ DiskChanges

(***************************************************************************)
(* The index and working tree of one repository, as the git commands the   *)
(* code runs change them. A tree maps each file to the version of its      *)
(* content, 0 when the tree has no such file.                              *)
(***************************************************************************)
MaxVersion == 2

Files == {<<"f", "1">>, <<"f", "2">>}
Versions == 0..MaxVersion
\* request.files: lists of distinct files
FileLists == {<<>>} \cup {<<f>> : f \in Files}
                \cup {<<f, h>> : <<f, h>> \in {q \in Files \X Files : q[1] # q[2]}}

\* git add <file>: fails when the path matches neither a file nor an index entry
GitAddOk(index, work, f) == work[f] # 0 \/ index[f] # 0
GitAdd(index, work, f) == [index EXCEPT ![f] = work[f]]

\* git commit -m: fails with "nothing to commit" when the index equals HEAD;
\* it may fail besides (no user.name or user.email, a hook that rejects, a lock)
GitCommitOk(head, index) == index # head

\* for file_path in request.files: run_git_command(repo_path, "add", file_path),
\* left at the first failure: [index, ok]
RECURSIVE StageEach(_, _, _)
StageEach(index, work, files) ==
    IF files = <<>> THEN [index |-> index, ok |-> TRUE]
    ELSE IF ~GitAddOk(index, work, Head(files)) THEN [index |-> index, ok |-> FALSE]
    ELSE StageEach(GitAdd(index, work, Head(files)), work, Tail(files))

Before == [head |-> g_head, index |-> g_index, work |-> g_work, outside |-> g_outside]

\* for a request that unstages the files the request before it has staged:
\* the index as it was before they were staged, <<>> for any other request
StagedFrom(op, files) ==
    IF /\ op \in {"unstage_file", "unstage_files"}
       /\ g_res.op \in {"stage_file", "stage_files"}
       /\ g_res.success
       /\ g_res.files = files
    THEN g_res.before.index
    ELSE <<>>

Result(op, files, success) ==
    /\ g_res' = [op |-> op, files |-> files, success |-> success, before |-> Before,
                 staged_from |-> StagedFrom(op, files)]
    /\ UNCHANGED g_outside
    /\ UNCHANGED gOthers

\* git_ops.stage_file
stage_file(f) ==
    /\ IF GitAddOk(g_index, g_work, f)
       THEN g_index' = GitAdd(g_index, g_work, f) /\ Result("stage_file", <<f>>, TRUE)
       ELSE UNCHANGED g_index /\ Result("stage_file", <<f>>, FALSE)
    /\ UNCHANGED <<g_head, g_work>>

\* git_ops.unstage_file: git reset HEAD <file>
unstage_file(f) ==
    /\ g_index' = [g_index EXCEPT ![f] = g_head[f]]
    /\ Result("unstage_file", <<f>>, TRUE)
    /\ UNCHANGED <<g_head, g_work>>

\* git_ops.commit_staged: git commit -m; rev-parse HEAD
commit_staged ==
    /\ \E exitsZero \in BOOLEAN :
          /\ exitsZero => GitCommitOk(g_head, g_index)
          /\ IF exitsZero
             THEN g_head' = g_index /\ Result("commit_staged", <<>>, TRUE)
             ELSE UNCHANGED g_head /\ Result("commit_staged", <<>>, FALSE)
    /\ UNCHANGED <<g_index, g_work>>

\* git_ops.commit_all on behalf of `op`: git add -A; git commit -m; rev-parse HEAD
CommitAllFor(op, files) ==
    /\ g_index' = g_work
    /\ \E exitsZero \in BOOLEAN :
          /\ exitsZero => GitCommitOk(g_head, g_work)
          /\ IF exitsZero
             THEN g_head' = g_work /\ Result(op, files, TRUE)
             ELSE UNCHANGED g_head /\ Result(op, files, FALSE)
    /\ UNCHANGED g_work

commit_all == CommitAllFor("commit_all", <<>>)

\* git_source_control.commit_changes (POST /api/projects/{project_id}/git/commit)
commit_changes(files) ==
    LET staged == StageEach(g_index, g_work, files)
    IN  IF ~staged.ok
        THEN /\ g_index' = staged.index
             /\ Result("commit_changes", files, FALSE)
             /\ UNCHANGED <<g_head, g_work>>
        ELSE CommitAllFor("commit_changes", files)

\* git_ops.discard_changes, and git.py's discard route around it:
\* git checkout HEAD <file> restores the file in the index and on disk, and
\* fails when HEAD has no such path
discard_changes(f) ==
    IF g_head[f] # 0
    THEN /\ g_index' = [g_index EXCEPT ![f] = g_head[f]]
         /\ g_work' = [g_work EXCEPT ![f] = g_head[f]]
         /\ Result("discard_changes", <<f>>, TRUE)
         /\ UNCHANGED g_head
    ELSE /\ Result("discard_changes", <<f>>, FALSE)
         /\ UNCHANGED <<g_head, g_index, g_work>>

(***************************************************************************)
(* The routes of git_source_control.py that run one git command after the  *)
(* other through run_git_command. A fault is what the environment does to  *)
(* the n-th command of a request: nothing, a non-zero exit for a reason of *)
(* its own (index.lock, permissions), or a run longer than the 30 s budget;*)
(* a command that fails leaves the index and the working tree alone.       *)
(***************************************************************************)
NoFault == [at |-> 0, how |-> "none"]
Faults == {NoFault} \cup [at : 1..(2 * Cardinality(Files)), how : {"exit", "timeout"}]

\* run_git_command: (returncode == 0, stdout or stderr), (False, "Git command
\* timed out") on TimeoutExpired
run_git_command(n, fault, exitsZero) ==
    IF fault.at = n /\ fault.how = "timeout" THEN <<FALSE, "Git command timed out">>
    ELSE IF fault.at = n \/ ~exitsZero THEN <<FALSE, "stderr">>
    ELSE <<TRUE, "stdout">>

\* a request as it starts: the trees, the commands spawned so far, the status
Start(before) ==
    [head |-> before.head, index |-> before.index, work |-> before.work,
     outside |-> before.outside, n |-> 0, http |-> 200]

\* stage_files: for file_path in request.files: git reset HEAD | git add
RECURSIVE StageFilesLoop(_, _, _, _)
StageFilesLoop(r, files, unstage, fault) ==
    IF files = <<>> THEN r
    ELSE LET file_path == Head(files)
             res == run_git_command(r.n + 1, fault,
                                    unstage \/ GitAddOk(r.index, r.work, file_path))
         IN  IF ~res[1]
             THEN [r EXCEPT !.n = @ + 1, !.http = 500]
             ELSE StageFilesLoop(
                     [r EXCEPT !.n = @ + 1,
                               !.index = IF unstage THEN [@ EXCEPT ![file_path] = r.head[file_path]]
                                         ELSE GitAdd(@, r.work, file_path)],
                     Tail(files), unstage, fault)

\* the repository's directory, and a file of the same disk outside it
RepoPath == <<"/", "r">>
OutsideFile == <<"/", "x">>
\* request paths that are no names of files of the repository
OutsidePaths == {OutsideFile, <<".", ".", "/", "x">>}
DiscardLists == FileLists \cup {<<p>> : p \in OutsidePaths}

\* os.path.join(a, p): an absolute p discards a
os_path_join(a, p) == IF p # <<>> /\ Head(p) = "/" THEN p ELSE a \o <<"/">> \o p

\* the file a path names, as the operating system walks its components
RECURSIVE Walk(_, _)
Walk(components, at) ==
    IF components = <<>> THEN at
    ELSE LET c == Head(components)
         IN  Walk(Tail(components),
                  IF c \in {<<>>, <<".">>} THEN at
                  ELSE IF c = <<".", ".">>
                  THEN (IF at = <<>> THEN at ELSE SubSeq(at, 1, Len(at) - 1))
                  ELSE Append(at, c))

Resolved(path) == Walk(Split(path, <<"/">>), <<>>)

\* discard_changes: for file_path in request.files: git ls-files --error-unmatch,
\* then git checkout HEAD -- <file> when that succeeded, os.remove otherwise;
\* git refuses a path outside the repository
RECURSIVE DiscardLoop(_, _, _)
DiscardLoop(r, files, fault) ==
    IF files = <<>> THEN r
    ELSE LET file_path == Head(files)
             inRepo == file_path \in Files
             probe == run_git_command(r.n + 1, fault, inRepo /\ r.index[file_path] # 0)
             restore == run_git_command(r.n + 2, fault, r.head[file_path] # 0)
             file_full_path == os_path_join(RepoPath, file_path)
         IN  IF probe[1]
             THEN IF ~restore[1]
                  THEN [r EXCEPT !.n = @ + 2, !.http = 500]
                  ELSE DiscardLoop([r EXCEPT !.n = @ + 2,
                                             !.index[file_path] = r.head[file_path],
                                             !.work[file_path] = r.head[file_path]],
                                   Tail(files), fault)
             ELSE DiscardLoop(
                     [r EXCEPT !.n = @ + 1,
                               !.work = IF inRepo THEN [@ EXCEPT ![file_path] = 0] ELSE @,
                               !.outside = @ /\ Resolved(file_full_path) # Resolved(OutsideFile)],
                     Tail(files), fault)

\* the request is answered with r.http; the fault, if any, has hit a command
Respond(op, files, fault, r) ==
    /\ fault.at <= r.n
    /\ g_index' = r.index
    /\ g_work' = r.work
    /\ g_outside' = r.outside
    /\ g_res' = [op |-> op, files |-> files, success |-> r.http = 200, before |-> Before,
                 staged_from |-> StagedFrom(op, files),
                 http |-> r.http, fault |-> fault, ran |-> r.n]

\* POST /api/projects/{project_id}/git/stage
stage_files(files, unstage, fault) ==
    /\ Respond(IF unstage THEN "unstage_files" ELSE "stage_files", files, fault,
               StageFilesLoop(Start(Before), files, unstage, fault))
    /\ UNCHANGED g_head
    /\ UNCHANGED gOthers

\* POST /api/projects/{project_id}/git/discard
gsc_discard_changes(files, fault) ==
    /\ Respond("gsc_discard_changes", files, fault,
               DiscardLoop(Start(Before), files, fault))
    /\ UNCHANGED g_head
    /\ UNCHANGED gOthers

\* outside the API: a file is edited, created or deleted in the working tree;
\* the answer of the last operation is then past
EditFile ==
    \E f \in Files, v \in Versions :
        /\ g_work[f] # v
        /\ g_work' = [g_work EXCEPT ![f] = v]
        /\ g_res' = [op |-> "none", files |-> <<>>, success |-> TRUE, before |-> <<>>,
                     staged_from |-> <<>>]
        /\ UNCHANGED <<g_head, g_index, g_outside>>
        /\ UNCHANGED gOthers

GInit ==
    /\ g_head = [f \in Files |-> IF f = <<"f", "1">> THEN 1 ELSE 0]
    /\ g_index = g_head
    /\ g_work = g_head
    /\ g_res = [op |-> "none", files |-> <<>>, success |-> TRUE, before |-> <<>>,
                staged_from |-> <<>>]
    /\ g_outside = TRUE

GIdle ==
    /\ g_head = <<>>
    /\ g_index = <<>>
    /\ g_work = <<>>
    /\ g_res = [op |-> "none", files |-> <<>>, success |-> TRUE, before |-> <<>>,
                staged_from |-> <<>>]
    /\ g_outside = FALSE

GitNext ==
    \/ \E f \in Files : stage_file(f)
    \/ \E f \in Files : unstage_file(f)
    \/ commit_staged
    \/ commit_all
    \/ \E files \in FileLists : commit_changes(files)
    \/ EditFile

\* staging, unstaging and discarding, by git_ops.py and by git_source_control.py
IndexNext ==
    \/ \E f \in Files : stage_file(f)
    \/ \E f \in Files : unstage_file(f)
    \/ \E f \in Files : discard_changes(f)
    \/ \E files \in FileLists, unstage \in BOOLEAN, fault \in Faults :
            stage_files(files, unstage, fault)
    \/ \E files \in DiscardLists, fault \in Faults : gsc_discard_changes(files, fault)
    \/ EditFile

(***************************************************************************)
(* The functions of git_ops.py as sequences of _run calls. _run raises     *)
(* CalledProcessError when git exits non-zero (check=True); where the next *)
(* step of a function is decided by its try/except blocks, it is computed  *)
(* here from the exits of the commands run so far. _run waits for the git  *)
(* process without a timeout; run_git_command gives it 30 seconds.         *)
(***************************************************************************)
Stderrs == {"", "fatal: refused"}

MaxCommits == 2
\* the hash of the n-th commit, as git prints it
Sha(n) == <<"c", <<"0", "1", "2", "3", "4", "5", "6", "7", "8", "9">>[n + 1]>>

\* str(CalledProcessError): "Command '[...]' returned non-zero exit status 1."
StrCalledProcessError(cmd) == <<"Command '", cmd, "' returned non-zero exit status ", "1", ".">>

Run(cmd) == [kind |-> "run", cmd |-> cmd, arg |-> <<>>]
\* the branch or URL argument the caller puts into the commands of a function
WithArg(r, arg) == IF r.kind = "run" THEN [r EXCEPT !.arg = arg] ELSE r
ReturnNone == [kind |-> "none", success |-> TRUE, error |-> <<>>]
ReturnDict(success, error) == [kind |-> "dict", success |-> success, error |-> error]
Raise(cmd) == [kind |-> "raised", success |-> FALSE, error |-> StrCalledProcessError(cmd)]

\* the commands of the functions whose body is one try block of _run calls
Script(name) ==
    CASE name = "stage_file" -> <<"add">>
      [] name = "unstage_file" -> <<"reset HEAD">>
      [] name = "discard_changes" -> <<"checkout HEAD">>
      [] name = "stage_all" -> <<"add -A">>
      [] name = "unstage_all" -> <<"reset HEAD">>
      [] name = "commit_staged" -> <<"commit", "rev-parse HEAD">>
      [] name = "commit_all" -> <<"add -A", "commit", "rev-parse HEAD">>

Last(t) == t[Len(t)]

\* try: _run(...); ...; return {"success": True, ...}
\* except CalledProcessError as e: return {"success": False, "error": str(e)}
TryScript(name, t) ==
    IF t # <<>> /\ Last(t).exit # 0
    THEN ReturnDict(FALSE, StrCalledProcessError(Last(t).cmd))
    ELSE IF Len(t) < Len(Script(name)) THEN Run(Script(name)[Len(t) + 1])
    ELSE ReturnDict(TRUE, <<>>)

\* commit_sha = current_head(repo_path); return {..., "commit_hash": commit_sha}
WithHash(r, t) ==
    IF r.kind = "dict" /\ r.success
    THEN [kind |-> "dict", success |-> TRUE, error |-> <<>>, commit_hash |-> Last(t).out]
    ELSE r

hard_reset(t) ==
    IF t = <<>> THEN Run("reset --hard")
    ELSE IF Last(t).exit # 0 THEN Raise(Last(t).cmd) ELSE ReturnNone

\* push_to_remote giving up after the normal push
PushWithoutRetry(t) ==
    IF t = <<>> THEN Run("push -u")
    ELSE IF Last(t).exit = 0 THEN ReturnDict(TRUE, <<>>)
    ELSE ReturnDict(FALSE, IF Last(t).stderr # "" THEN <<Last(t).stderr>>
                           ELSE StrCalledProcessError(Last(t).cmd))

push_to_remote(t) ==
    IF t = <<>> THEN Run("push -u")
    ELSE IF Last(t).exit = 0 THEN ReturnDict(TRUE, <<>>)
    ELSE IF Len(t) = 1 THEN Run("push -u --force")
    ELSE ReturnDict(FALSE, IF Last(t).stderr # "" THEN <<Last(t).stderr>>
                           ELSE StrCalledProcessError(Last(t).cmd))

Main == <<"m", "a", "i", "n">>
Https == <<"h", "t", "t", "p", "s", ":", "/", "/">>
GithubHost == <<"g", "i", "t", "h", "u", "b", ".", "c", "o", "m", "/">>
OtherHost == <<"g", "l", ".", "i", "o", "/">>

\* remote URLs: https://[user@]host/repository
Url(cred, host) == Https \o cred \o host \o <<"r">>
Urls == {Url(cred, host) : cred \in {<<>>, <<"t", "@">>}, host \in {GithubHost, OtherHost}}

\* re.sub(r'https://[^@]+@github.com/', 'https://github.com/', url): a match
\* starts at "https://", runs over one or more characters other than "@" up
\* to the first "@", and goes on with "github", any character, "com/"
RECURSIVE normalize_url(_)
normalize_url(url) ==
    LET i == Find(url, Https)
        rest == From(url, i + Len(Https) - 1)
        at == Find(rest, <<"@">>)
        host == From(rest, at)
        matches == /\ at >= 2
                   /\ Len(host) >= Len(GithubHost)
                   /\ SubSeq(host, 1, 6) = SubSeq(GithubHost, 1, 6)
                   /\ host[7] # NL
                   /\ SubSeq(host, 8, 11) = SubSeq(GithubHost, 8, 11)
    IN  IF i = 0 THEN url
        ELSE IF matches
        THEN SubSeq(url, 1, i - 1) \o Https \o GithubHost
                 \o normalize_url(From(host, Len(GithubHost)))
        ELSE SubSeq(url, 1, i) \o normalize_url(From(url, i))

\* add_remote taking every existing remote for a different repository
AddRemoteAlwaysReplace(remote_url, t) ==
    LET body == <<"remote get-url", "remote remove", "remote add", "branch --unset-upstream">>
        failed == {i \in 1..Len(t) : t[i].exit # 0}
    IN  IF failed = {}
        THEN IF Len(t) < Len(body) THEN Run(body[Len(t) + 1]) ELSE ReturnNone
        ELSE IF t[Len(t)].cmd = "branch --unset-upstream" THEN ReturnNone
        ELSE IF Len(t) \in failed /\ Cardinality(failed) = 1 THEN Run("remote add")
        ELSE IF Last(t).exit = 0 THEN ReturnNone
        ELSE Raise(Last(t).cmd)

\* git_ops.add_remote
add_remote(remote_url, t) ==
    LET same == t # <<>> /\ normalize_url(t[1].out) = normalize_url(remote_url)
        body == IF same THEN <<"remote get-url", "remote set-url">>
                ELSE <<"remote get-url", "remote remove", "remote add",
                       "branch --unset-upstream">>
        failed == {i \in 1..Len(t) : t[i].exit # 0}
    IN  IF failed = {}
        THEN IF Len(t) < Len(body) THEN Run(body[Len(t) + 1]) ELSE ReturnNone
        ELSE IF t[Len(t)].cmd = "branch --unset-upstream" THEN ReturnNone
        ELSE IF Len(t) \in failed /\ Cardinality(failed) = 1 THEN Run("remote add")
        ELSE IF Last(t).exit = 0 THEN ReturnNone
        ELSE Raise(Last(t).cmd)

\* git_ops.get_current_branch: the stripped output, "main" when git fails
get_current_branch(t) ==
    IF t = <<>> THEN Run("branch --show-current")
    ELSE [kind |-> "str", success |-> TRUE, error |-> <<>>,
          value |-> IF Last(t).exit = 0 THEN Last(t).out ELSE Main]

\* git_source_control.push_to_remote_endpoint:
\* push_to_remote(repo_path, "origin", get_current_branch(repo_path))
push_to_remote_endpoint(t) ==
    IF t = <<>> THEN get_current_branch(t)
    ELSE LET current_branch == get_current_branch(<<t[1]>>).value
             result == push_to_remote(Tail(t))
         IN  IF result.kind = "run" THEN WithArg(result, current_branch)
             ELSE [kind |-> "http", success |-> result.success, error |-> result.error]

\* git_source_control.get_file_diff: one command through run_git_command
get_file_diff(t) ==
    IF t = <<>> THEN Run("diff")
    ELSE [kind |-> "http", success |-> Last(t).exit = 0, error |-> <<>>]

OpNames == {"stage_file", "unstage_file", "discard_changes", "stage_all", "unstage_all",
            "commit_staged", "commit_all", "hard_reset", "push_to_remote", "add_remote",
            "get_file_diff", "get_current_branch", "push_to_remote_endpoint"}

\* subprocess.run(..., timeout=30) in run_git_command, no timeout in _run
HasTimeout(name) == name \in {"get_file_diff"}

Control(op, t) ==
    CASE op.name = "hard_reset" -> hard_reset(t)
      [] op.name = "push_to_remote" -> WithArg(push_to_remote(t), Main)
      [] op.name = "add_remote" -> WithArg(add_remote(op.url, t), op.url)
      [] op.name = "get_file_diff" -> get_file_diff(t)
      [] op.name = "get_current_branch" -> get_current_branch(t)
      [] op.name = "push_to_remote_endpoint" -> push_to_remote_endpoint(t)
      [] op.name \in {"commit_staged", "commit_all"} -> WithHash(TryScript(op.name, t), t)
      [] OTHER -> TryScript(op.name, t)

\* what git lets a command do: a push that is no fast-forward is rejected, a
\* push needs a remote and a branch, a remote is added once and changed or
\* removed when it exists, an upstream is unset when there is one; any
\* command may fail besides (lock file, permissions, network, not a repository)
MayExitZero(c) ==
    /\ c.cmd = "push -u" => o_remote # "diverged"
    /\ c.cmd \in {"push -u", "push -u --force"} => o_repo.url # None /\ c.arg # <<>>
    /\ c.cmd \in {"remote get-url", "remote remove", "remote set-url"} => o_repo.url # None
    /\ c.cmd = "remote add" => o_repo.url = None
    /\ c.cmd = "branch --unset-upstream" => o_repo.upstream /\ o_repo.branch # <<>>
    /\ c.cmd = "commit" => o_repo.head < MaxCommits

\* what a command that exits zero prints, as _run returns it
GitStdout(c) ==
    CapturedStdout(CASE c.cmd = "branch --show-current" ->
                            IF o_repo.branch = <<>> THEN <<>> ELSE o_repo.branch \o <<NL>>
                     [] c.cmd = "remote get-url" -> o_repo.url \o <<NL>>
                     [] c.cmd = "rev-parse HEAD" -> Sha(o_repo.head) \o <<NL>>
                     [] OTHER -> <<>>)

\* origin's branch after a command that exited zero
RemoteAfter(cmd, remote) ==
    IF cmd \in {"push -u", "push -u --force"} THEN "same"
    ELSE IF cmd = "commit" /\ remote = "same" THEN "behind"
    ELSE remote

\* the repository's configuration after a command that exited zero; git
\* remote remove also drops the upstream settings that name the remote
RepoAfter(c, repo) ==
    CASE c.cmd = "remote remove" -> [repo EXCEPT !.url = None, !.upstream = FALSE]
      [] c.cmd \in {"remote add", "remote set-url"} -> [repo EXCEPT !.url = c.arg]
      [] c.cmd = "branch --unset-upstream" -> [repo EXCEPT !.upstream = FALSE]
      [] c.cmd \in {"push -u", "push -u --force"} -> [repo EXCEPT !.upstream = TRUE]
      [] c.cmd = "commit" -> [repo EXCEPT !.head = @ + 1]
      [] OTHER -> repo

\* a function is called; `again` says that it is add_remote called for the
\* second time in a row with one URL, the first call having returned
Call ==
    \E name \in OpNames, url \in Urls \cup {None} :
        /\ o_pc \notin {"running", "waiting"}
        /\ url # None <=> name = "add_remote"
        /\ o_pc' = "running"
        /\ o_op' = [name |-> name, url |-> url,
                    again |-> /\ name = "add_remote"
                              /\ o_op.name = "add_remote"
                              /\ o_op.url = url
                              /\ o_pc = "returned"]
        /\ o_trace' = <<>>
        /\ o_ret' = ReturnNone
        /\ UNCHANGED <<o_remote, o_repo>>
        /\ UNCHANGED oOthers

\* subprocess.run starts the git process of the function's next command
Spawn ==
    /\ o_pc = "running"
    /\ o_pc' = "waiting"
    /\ UNCHANGED <<o_op, o_trace, o_ret, o_remote, o_repo>>
    /\ UNCHANGED oOthers

\* subprocess.run is over: the function goes on to its next command, returns or raises
Resume(exit, stderr) ==
    LET c == Control(o_op, o_trace)
        repo == IF exit = 0 THEN RepoAfter(c, o_repo) ELSE o_repo
        t == Append(o_trace, [cmd |-> c.cmd, arg |-> c.arg, exit |-> exit, stderr |-> stderr,
                              out |-> IF exit = 0 THEN GitStdout(c) ELSE <<>>,
                              remote |-> o_remote, head |-> repo.head])
        next == Control(o_op, t)
    IN  /\ o_trace' = t
        /\ o_remote' = IF exit = 0 THEN RemoteAfter(c.cmd, o_remote) ELSE o_remote
        /\ o_repo' = repo
        /\ IF next.kind = "run"
           THEN o_pc' = "running" /\ UNCHANGED o_ret
           ELSE /\ o_pc' = IF next.kind = "raised" THEN "raised" ELSE "returned"
                /\ o_ret' = next

\* the git process exits, if it ever does
RunCommand ==
    /\ o_pc = "waiting"
    /\ \E exit \in {0, 1}, stderr \in Stderrs :
          /\ exit = 0 => (stderr = "" /\ MayExitZero(Control(o_op, o_trace)))
          /\ Resume(exit, stderr)
    /\ UNCHANGED o_op
    /\ UNCHANGED oOthers

\* the 30 seconds are over: subprocess.run kills the process (exit -9) and
\* raises TimeoutExpired, which run_git_command turns into a failure
TimeoutExpired ==
    /\ o_pc = "waiting"
    /\ HasTimeout(o_op.name)
    /\ Resume(-9, "")
    /\ UNCHANGED o_op
    /\ UNCHANGED oOthers

\* outside this system: somebody else pushes to origin's branch. What others
\* do is seen by this system when a git process runs: it is placed there.
OthersPush ==
    /\ o_pc = "waiting"
    /\ o_remote # "diverged"
    /\ o_remote' = "diverged"
    /\ UNCHANGED <<o_pc, o_op, o_trace, o_ret, o_repo>>
    /\ UNCHANGED oOthers

\* outside this system: a commit is checked out (HEAD detached), or the branch again
Checkout ==
    /\ o_pc = "waiting"
    /\ o_repo' = [o_repo EXCEPT !.branch = IF @ = <<>> THEN Main ELSE <<>>]
    /\ UNCHANGED <<o_pc, o_op, o_trace, o_ret, o_remote>>
    /\ UNCHANGED oOthers

\* outside this system: another process or request commits in the repository
\* (a reset or a checkout moves HEAD likewise); placed where this system
\* sees it, before a git process that reads HEAD
OthersCommit ==
    /\ o_pc = "waiting"
    /\ Control(o_op, o_trace).cmd = "rev-parse HEAD"
    /\ o_repo.head < MaxCommits
    /\ o_repo' = [o_repo EXCEPT !.head = @ + 1]
    /\ UNCHANGED <<o_pc, o_op, o_trace, o_ret, o_remote>>
    /\ UNCHANGED oOthers

OInit ==
    /\ o_pc = "idle"
    /\ o_op = [name |-> "none", url |-> None, again |-> FALSE]
    /\ o_trace = <<>>
    /\ o_ret = ReturnNone
    /\ o_remote = "empty"
    /\ o_repo = [branch |-> Main, url |-> None, upstream |-> FALSE, head |-> 0]

OpsNext ==
    Call \/ Spawn \/ RunCommand \/ TimeoutExpired \/ OthersPush \/ Checkout \/ OthersCommit

(***************************************************************************)
(* Branch listing (git_projects.py): what `git branch`, `git branch -r`    *)
(* and `git branch -a` print, and how the two parsers read it.             *)
(***************************************************************************)
BranchNames == << <<"d">>, <<"m">>, <<"H", "E", "A", "D", "2">>,
                  <<"a", "/", "o", "r", "i", "g", "i", "n", "/", "b">> >>
Origin == <<"o", "r", "i", "g", "i", "n", "/">>
Remotes == <<"r", "e", "m", "o", "t", "e", "s", "/">>
OriginHEAD == Origin \o <<"H", "E", "A", "D">>
\* the line git prints for a detached HEAD: "* (HEAD detached at 1)"
DetachedLine == <<"*", SP, "(">> \o <<"H", "E", "A", "D", SP, "d", "e", "t", "a", "c", "h", "e", "d",
                                     SP, "a", "t", SP, "1", ")">>

RECURSIVE Unlines(_)
Unlines(lines) == IF lines = <<>> THEN <<>> ELSE Head(lines) \o <<NL>> \o Unlines(Tail(lines))

\* stdout of git branch (mode ""), git branch -r, git branch -a
GitBranch(repo, mode) ==
    LET all == [i \in 1..Len(BranchNames) |-> i]
        Local(i) == repo.local[i]
        Remote(i) == repo.remote[i]
        local == SelectSeq(all, Local)
        remote == SelectSeq(all, Remote)
        prefix == IF mode = "-a" THEN Remotes ELSE <<>>
        localLines ==
            (IF repo.head = 0 THEN <<DetachedLine>> ELSE <<>>)
            \o [k \in 1..Len(local) |->
                    (IF repo.head = local[k] THEN <<"*", SP>> ELSE <<SP, SP>>)
                        \o BranchNames[local[k]]]
        remoteLines ==
            IF remote = <<>> THEN <<>>
            ELSE << <<SP, SP>> \o prefix \o OriginHEAD \o Arrow \o Origin
                        \o BranchNames[remote[1]] >>
                 \o [k \in 1..Len(remote) |->
                        <<SP, SP>> \o prefix \o Origin \o BranchNames[remote[k]]]
    IN  Unlines(CASE mode = "" -> localLines
                  [] mode = "-r" -> remoteLines
                  [] mode = "-a" -> localLines \o remoteLines)

GitBranchEntry(name, is_current, is_remote) ==
    [name |-> name, is_current |-> is_current, is_remote |-> is_remote]

\* get_project_branches: the loop over the lines of git branch
RECURSIVE LocalBranches(_, _)
LocalBranches(lines, branches) ==
    IF lines = <<>> THEN branches
    ELSE LET line == Strip(Head(lines))
         IN  LocalBranches(Tail(lines),
                 IF line # <<>>
                 THEN Append(branches,
                             GitBranchEntry(Replace(line, <<"*", SP>>, <<>>),
                                            StartsWith(line, <<"*", SP>>), FALSE))
                 ELSE branches)

\* get_project_branches: the loop over the lines of git branch -r
RECURSIVE RemoteBranches(_, _)
RemoteBranches(lines, branches) ==
    IF lines = <<>> THEN branches
    ELSE LET line == Strip(Head(lines))
             branch_name == Replace(line, Origin, <<>>)
         IN  RemoteBranches(Tail(lines),
                 IF /\ line # <<>>
                    /\ ~StartsWith(line, OriginHEAD)
                    /\ \A k \in 1..Len(branches) : branches[k].name # branch_name
                 THEN Append(branches, GitBranchEntry(branch_name, FALSE, TRUE))
                 ELSE branches)

\* get_git_info: the loop over the lines of git branch -a
RECURSIVE InfoBranches(_, _)
InfoBranches(lines, branches) ==
    IF lines = <<>> THEN branches
    ELSE LET line == Strip(Head(lines))
             branch_name == Replace(Replace(line, <<"*", SP>>, <<>>), Remotes \o Origin, <<>>)
         IN  InfoBranches(Tail(lines),
                 IF /\ line # <<>>
                    /\ ~StartsWith(line, Remotes \o OriginHEAD)
                    /\ \A k \in 1..Len(branches) : branches[k] # branch_name
                 THEN Append(branches, branch_name)
                 ELSE branches)

\* GET /api/git-projects/{project_name}/branches
get_project_branches ==
    /\ br_branches' =
          RemoteBranches(Split(CapturedStdout(GitBranch(br_repo, "-r")), <<NL>>),
              LocalBranches(Split(CapturedStdout(GitBranch(br_repo, "")), <<NL>>), <<>>))
    /\ UNCHANGED <<br_repo, br_info>>
    /\ UNCHANGED brOthers

\* git_projects.get_git_info, the branches part
get_git_info ==
    /\ br_info' = InfoBranches(Split(CapturedStdout(GitBranch(br_repo, "-a")), <<NL>>), <<>>)
    /\ UNCHANGED <<br_repo, br_branches>>
    /\ UNCHANGED brOthers

\* a repository has a branch at least; HEAD is on a local branch or detached
BrInit ==
    /\ \E local, remote \in [1..Len(BranchNames) -> BOOLEAN], head \in 0..Len(BranchNames) :
          /\ \E i \in 1..Len(BranchNames) : local[i]
          /\ head # 0 => local[head]
          /\ br_repo = [local |-> local, remote |-> remote, head |-> head]
    /\ br_branches = <<>>
    /\ br_info = <<>>

BrIdle ==
    /\ br_repo = <<>>
    /\ br_branches = <<>>
    /\ br_info = <<>>

BranchesNext == get_project_branches \/ get_git_info

(***************************************************************************)
(* Cloning (git_projects.py): the request answers with a handle and leaves *)
(* the clone to a background task, which runs git clone with a budget of   *)
(* 300 seconds and removes the clone path when the clone did not succeed.  *)
(***************************************************************************)
MaxTasks == 2

Tasks == 1..MaxTasks
\* git@h:u/r.git, https://h/bit.git, ftp://h/r
GitUrls == { <<"g", "i", "t", "@", "h", ":", "u", "/", "r", ".", "g", "i", "t">>,
             <<"h", "t", "t", "p", "s", ":", "/", "/", "h", "/", "b", "i", "t", ".", "g", "i", "t">>,
             <<"f", "t", "p", ":", "/", "/", "h", "/", "r">> }
\* request.project_name: None, or a name
AskedNames == {None, <<"r">>}

\* the project name clone_repository works with
ProjectName(git_url, project_name) ==
    IF project_name # None THEN project_name
    ELSE LET url_parts == Split(RStrip(git_url, {".", "g", "i", "t"}), <<"/">>)
         IN  url_parts[Len(url_parts)]

ProjectNames == {ProjectName(u, n) : u \in GitUrls, n \in AskedNames}

ValidGitUrl(git_url) ==
    \/ StartsWith(git_url, <<"g", "i", "t", "@">>)
    \/ StartsWith(git_url, <<"h", "t", "t", "p", "s", ":", "/", "/">>)
    \/ StartsWith(git_url, <<"h", "t", "t", "p", ":", "/", "/">>)

NoDir == [owner |-> 0, complete |-> FALSE]
NoTask == [pc |-> "none", git_url |-> None, project_name |-> None, outcome |-> "none"]

\* POST /api/git-projects/clone
clone_repository(git_url, asked) ==
    LET project_name == ProjectName(git_url, asked)
        answer(code) == [code |-> code, git_url |-> git_url, asked |-> asked,
                         project_name |-> project_name]
    IN  /\ IF cl_fs[project_name] # NoDir
           THEN cl_resp' = answer(409) /\ UNCHANGED cl_task
           ELSE IF ~ValidGitUrl(git_url)
           THEN cl_resp' = answer(400) /\ UNCHANGED cl_task
           ELSE \E t \in Tasks :
                   /\ cl_task[t] = NoTask
                   /\ cl_task' = [cl_task EXCEPT ![t] =
                                     [pc |-> "queued", git_url |-> git_url,
                                      project_name |-> project_name, outcome |-> "none"]]
                   /\ cl_resp' = answer(200)
        /\ UNCHANGED cl_fs
        /\ UNCHANGED clOthers

\* clone_repository_background: subprocess.run starts git clone, which makes
\* the directory, or exits at once when the path holds one already
StartClone(t) ==
    /\ cl_task[t].pc = "queued"
    /\ IF cl_fs[cl_task[t].project_name] # NoDir
       THEN /\ cl_task' = [cl_task EXCEPT ![t].pc = "exited", ![t].outcome = "failed"]
            /\ UNCHANGED cl_fs
       ELSE /\ cl_task' = [cl_task EXCEPT ![t].pc = "cloning"]
            /\ cl_fs' = [cl_fs EXCEPT ![cl_task[t].project_name] =
                            [owner |-> t, complete |-> FALSE]]
    /\ UNCHANGED cl_resp
    /\ UNCHANGED clOthers

\* subprocess.run is over: git has exited with zero or not, the 300 seconds
\* have passed, or another exception is raised; a clone whose directory has
\* been removed under it does not exit with zero
CloneEnds(t) ==
    /\ cl_task[t].pc = "cloning"
    /\ \E outcome \in {"cloned", "failed", "timeout", "raised"} :
          /\ outcome = "cloned" => cl_fs[cl_task[t].project_name].owner = t
          /\ cl_task' = [cl_task EXCEPT ![t].pc = "exited", ![t].outcome = outcome]
          /\ cl_fs' = IF outcome = "cloned"
                      THEN [cl_fs EXCEPT ![cl_task[t].project_name].complete = TRUE]
                      ELSE cl_fs
    /\ UNCHANGED cl_resp
    /\ UNCHANGED clOthers

\* clone_repository_background after subprocess.run: if os.path.exists(clone_path):
\* shutil.rmtree(clone_path), on every path but the successful one
CleanUp(t) ==
    /\ cl_task[t].pc = "exited"
    /\ cl_task' = [cl_task EXCEPT ![t].pc = "done"]
    /\ cl_fs' = IF cl_task[t].outcome # "cloned"
                THEN [cl_fs EXCEPT ![cl_task[t].project_name] = NoDir]
                ELSE cl_fs
    /\ UNCHANGED cl_resp
    /\ UNCHANGED clOthers

ClInit ==
    /\ cl_fs = [n \in ProjectNames |-> NoDir]
    /\ cl_task = [t \in Tasks |-> NoTask]
    /\ cl_resp = [code |-> 0, git_url |-> None, asked |-> None, project_name |-> None]

ClIdle ==
    /\ cl_fs = <<>>
    /\ cl_task = <<>>
    /\ cl_resp = [code |-> 0, git_url |-> None, asked |-> None, project_name |-> None]

CloneNext ==
    \/ \E u \in GitUrls, n \in AskedNames : clone_repository(u, n)
    \/ \E t \in Tasks : StartClone(t)
    \/ \E t \in Tasks : CloneEnds(t)
    \/ \E t \in Tasks : CleanUp(t)

(***************************************************************************)
(* Project detection (project_detector.py). The content of package.json is *)
(* what json.load makes of it: a decode error, or a JSON value of some     *)
(* type; a dict is given by its keys.                                      *)
(***************************************************************************)
Json(type) == [type |-> type, keys |-> {}]
JDict(keys) == [type |-> "object", keys |-> keys]
\* a key that the manifest does not have
Absent == Json("absent")
Manifest(scripts, dependencies, devDependencies) ==
    [type |-> "object", keys |-> {"name"}, scripts |-> scripts,
     dependencies |-> dependencies, devDependencies |-> devDependencies]

Express == <<"e", "x", "p", "r", "e", "s", "s">>
Preact == <<"p", "r", "e", "a", "c", "t">>
\* package.json: no such file, not JSON, JSON that is no object, manifests
PackageJsons ==
    {Json("missing"), Json("invalid"), Json("array"), Json("null")}
        \cup {Manifest(s, d, v) :
                s \in {Absent, Json("null"), JDict({"build"}), JDict({"build", "start"})},
                d \in {Absent, Json("null"), JDict({Express}), JDict({Express, Preact})},
                v \in {Absent, JDict({Express})}}

frontend_scripts == {"dev", "start", "serve", "develop"}
\* of the frontend_indicators, those that occur in the names of the model
frontend_indicators == {<<"r", "e", "a", "c", "t">>, <<"v", "u", "e">>}

\* package_data.get(key, {}): a dict has get, a list or None has not
Get(package_data, key) ==
    IF package_data.type # "object" THEN Json("AttributeError")
    ELSE IF package_data[key] = Absent THEN JDict({})
    ELSE package_data[key]

Return(is_frontend, reason) ==
    [called |-> TRUE, raised |-> "none", is_frontend |-> is_frontend, reason |-> reason]
Raised(exception) ==
    [called |-> TRUE, raised |-> exception, is_frontend |-> FALSE, reason |-> "none"]

is_frontend_project ==
    LET package_data == pd_repo.package_json
        scripts == Get(package_data, "scripts")
        has_dev_script == \E script \in frontend_scripts : script \in scripts.keys
        dependencies == Get(package_data, "dependencies")
        devDependencies == Get(package_data, "devDependencies")
        all_deps == dependencies.keys \cup devDependencies.keys
        found_frameworks ==
            {dep_name \in all_deps : \E i \in frontend_indicators : Find(dep_name, i) # 0}
    IN  /\ ~pd_ret.called
        /\ pd_ret' =
              IF ~pd_repo.exists THEN Return(FALSE, "Project repository path does not exist")
              ELSE IF package_data.type = "missing" THEN Return(FALSE, "No package.json found")
              ELSE IF package_data.type = "invalid"
              THEN Return(FALSE, "Could not parse package.json")
              ELSE IF package_data.type # "object" THEN Raised("AttributeError")
              ELSE IF scripts.type # "object" THEN Raised("TypeError")
              ELSE IF ~has_dev_script
              THEN Return(FALSE, "No frontend development scripts found in package.json")
              ELSE IF dependencies.type # "object" \/ devDependencies.type # "object"
              THEN Raised("TypeError")
              ELSE IF found_frameworks # {} THEN Return(TRUE, "Frontend project detected with")
              ELSE IF pd_repo.dirs
              THEN Return(TRUE, "Frontend project structure detected")
              ELSE Return(TRUE, "Frontend project detected with development scripts")
        /\ UNCHANGED pd_repo
        /\ UNCHANGED pdOthers

PdInit ==
    /\ \E exists, dirs \in BOOLEAN, package_json \in PackageJsons :
          /\ ~exists => (~dirs /\ package_json = Json("missing"))
          /\ pd_repo = [exists |-> exists, package_json |-> package_json, dirs |-> dirs]
    /\ pd_ret = [called |-> FALSE, raised |-> "none", is_frontend |-> FALSE, reason |-> "none"]

PdIdle ==
    /\ pd_repo = <<>>
    /\ pd_ret = [called |-> FALSE, raised |-> "none", is_frontend |-> FALSE, reason |-> "none"]

DetectNext == is_frontend_project

(***************************************************************************)
(* Specifications                                                          *)
(***************************************************************************)
InitStatus == StInit /\ WsIdle /\ RsIdle /\ GIdle /\ OInit /\ BrIdle /\ ClIdle /\ PdIdle
SpecStatus == InitStatus /\ [][StatusNext]_vars

InitWorkspace == WsInit /\ StIdle /\ RsIdle /\ GIdle /\ OInit /\ BrIdle /\ ClIdle /\ PdIdle
SpecWorkspace == InitWorkspace /\ [][WorkspaceNext]_vars

InitResolve == RsInit /\ StIdle /\ WsIdle /\ GIdle /\ OInit /\ BrIdle /\ ClIdle /\ PdIdle
SpecResolve == InitResolve /\ [][ResolveNext]_vars

InitGit == GInit /\ StIdle /\ WsIdle /\ RsIdle /\ OInit /\ BrIdle /\ ClIdle /\ PdIdle
SpecGit == InitGit /\ [][GitNext]_vars
SpecIndex == InitGit /\ [][IndexNext]_vars

InitOps == OInit /\ StIdle /\ WsIdle /\ RsIdle /\ GIdle /\ BrIdle /\ ClIdle /\ PdIdle
SpecOps == InitOps /\ [][OpsNext]_vars

\* the code's own steps are taken and a timeout that is set elapses; nothing
\* makes a git process exit
SpecOpsLive == SpecOps /\ WF_vars(Spawn) /\ WF_vars(TimeoutExpired)

InitBranches == BrInit /\ StIdle /\ WsIdle /\ RsIdle /\ GIdle /\ OInit /\ ClIdle /\ PdIdle
SpecBranches == InitBranches /\ [][BranchesNext]_vars

InitClone == ClInit /\ StIdle /\ WsIdle /\ RsIdle /\ GIdle /\ OInit /\ BrIdle /\ PdIdle
SpecClone == InitClone /\ [][CloneNext]_vars

InitDetect == PdInit /\ StIdle /\ WsIdle /\ RsIdle /\ GIdle /\ OInit /\ BrIdle /\ ClIdle
SpecDetect == InitDetect /\ [][DetectNext]_vars

(***************************************************************************)
(* Claims                                                                  *)
(***************************************************************************)
\* C1: get_git_status never lists a path in untracked_files together with
\* staged_files or modified_files.
C1_UntrackedDisjoint ==
    LET PathsOf(files) == {files[i].path : i \in 1..Len(files)}
    IN  GscDone =>
            PathsOf(st_resp.untracked_files)
                \cap (PathsOf(st_resp.staged_files) \cup PathsOf(st_resp.modified_files)) = {}

\* C2: for every line, whatever its position, both parsers take the index
\* status from the first column, the worktree status from the second and the
\* path from the text after the separator (the destination of a rename).
C2_ColumnsByPosition ==
    LET Reported == [i \in 1..Len(st_entries) |->
                        <<st_entries[i].x, st_entries[i].y, st_entries[i].path>>]
    IN  /\ GscDone => st_seen = Reported
        /\ OpsDone => ops_seen = Reported

\* C3: at most one workspace row exists for any (local_git_project_name,
\* current_branch) pair, whatever requests have been served.
C3_OneWorkspacePerPair ==
    \A i, j \in WorkspaceIds :
        (/\ ws_rows[i].kind = "workspace"
         /\ ws_rows[j].kind = "workspace"
         /\ ws_rows[i].local_git_project_name = ws_rows[j].local_git_project_name
         /\ ws_rows[i].current_branch = ws_rows[j].current_branch) => i = j

\* C19: create_workspace and switch_workspace_branch take a branch only when the
\* repository, inspected during the request, has it, whatever the branch list
\* cached in a row says; a branch it has not gets the answer 400 listing the
\* branches it has, and no row is created or changed.
C19_LiveBranchValidation ==
    [][(ws_resp' # ws_resp /\ ws_resp'.op \in {"create", "switch"}
            /\ ws_resp'.about.name \in LocalRepos) =>
          LET q == ws_resp'
              repo == ws_repo[q.about.name]
              live == IF repo.kind = "git" THEN repo.branches ELSE {}
          IN  /\ q.code \in {200, 409} => q.about.branch \in live
              /\ q.code = 200 =>
                    /\ ws_rows'[q.id].current_branch = q.about.branch
                    /\ ws_rows'[q.id].branches.all = live
              /\ q.about.branch \notin live =>
                    /\ ws_rows' = ws_rows
                    /\ q.code \in {400, 404}
                    /\ (repo.kind = "git" \/ (q.op = "switch" /\ repo.kind = "plain")) =>
                          (q.code = 400 /\ q.about.available = live)
      ]_vars

\* a switch to a branch the repository has lost is refused although the row's
\* cached list still has the branch
C19_StaleCacheRejected ==
    /\ ws_resp.op = "switch"
    /\ ws_resp.code = 400
    /\ ws_rows[ws_resp.id].kind = "workspace"
    /\ ws_resp.about.branch \in ws_rows[ws_resp.id].branches.all
    /\ ws_resp.about.branch \notin ws_resp.about.available
    /\ ws_resp.about.available = ws_repo[ws_resp.about.name].branches

C6_DotGitConfirmedBeforeMutation ==
    LET Mutating == {"add", "reset", "checkout", "commit", "push", "reset --hard"}
    IN  (\E i \in 1..Len(rs_req.cmds) : rs_req.cmds[i] \in Mutating)
            => rs_req.git_checked /\ HasDotGit(rs_req.repo)

\* C7: resolution in git_source_control.py answers 'Project not found' without
\* a row, else uses repo_path when it is set and exists, else the conventional
\* path when that exists, else answers 'Repository not found'.
C7_ResolutionOrder ==
    rs_req.api = "gsc" =>
        LET p == rs_req.project_id
            primary == rs_row[p].repo_path
        IN  IF rs_row[p] = NoProject
            THEN rs_req.outcome = "Project not found" /\ rs_req.repo = None
            ELSE IF primary # None /\ Exists(primary)
            THEN rs_req.repo = primary
                 /\ rs_req.outcome \in {"ran", "Not a Git repository"}
            ELSE IF Exists(Conventional(p))
            THEN rs_req.repo = Conventional(p)
                 /\ rs_req.outcome \in {"ran", "Not a Git repository"}
            ELSE rs_req.outcome = "Repository not found" /\ rs_req.repo = None

\* a request resolved to the conventional path because repo_path is not set
C7_FallbackChosen ==
    /\ rs_req.api = "gsc"
    /\ rs_req.outcome = "ran"
    /\ rs_row[rs_req.project_id] # NoProject
    /\ rs_row[rs_req.project_id].repo_path = None
    /\ rs_req.repo = Conventional(rs_req.project_id)

\* C8: every route that takes a project id works in the row's repo_path
\* whenever that is set and exists on disk.
C8_PrimaryPathEverywhere ==
    (/\ rs_req.api \in {"gsc", "git", "commits"}
     /\ rs_req.outcome = "ran"
     /\ rs_row[rs_req.project_id].repo_path # None
     /\ Exists(rs_row[rs_req.project_id].repo_path))
        => rs_req.repo = rs_row[rs_req.project_id].repo_path

\* C4: POST /{project_id}/git/commit commits what was in the index plus the
\* files named in the request and nothing else, and fails when that is
\* nothing: unstaged and unnamed changes stay out of the new commit.
C4_CommitsOnlyStaged ==
    g_res.op = "commit_changes" =>
        LET named == {g_res.files[i] : i \in 1..Len(g_res.files)}
            staged == [f \in Files |-> IF f \in named THEN g_res.before.work[f]
                                       ELSE g_res.before.index[f]]
        IN  /\ g_res.success => g_head = staged
            /\ staged = g_res.before.head => ~g_res.success

\* C30: when commit_all returns success false, the index is what it was before
\* the call: nothing that was unstaged or untracked is left staged.
C30_FailedCommitAllKeepsIndex ==
    (g_res.op = "commit_all" /\ ~g_res.success) => g_index = g_res.before.index

\* C11: a request whose git command ran out of its time budget is answered
\* otherwise than the same request is when that command exits non-zero: the
\* executor's outcome lets the route tell a timeout from a failed command.
C11_TimeoutSurfacedDistinctly ==
    g_res.op \in {"stage_files", "unstage_files", "gsc_discard_changes"} =>
        (g_res.fault.how = "timeout" =>
            LET exited == [g_res.fault EXCEPT !.how = "exit"]
                start == Start(g_res.before)
            IN  /\ run_git_command(exited.at, g_res.fault, TRUE)
                        # run_git_command(exited.at, exited, TRUE)
                /\ g_res.op \in {"stage_files", "unstage_files"} =>
                     g_res.http # StageFilesLoop(start, g_res.files,
                                        g_res.op = "unstage_files", exited).http
                /\ g_res.op = "gsc_discard_changes" =>
                     g_res.http # DiscardLoop(start, g_res.files, exited).http)

\* C15: discarding a file that was created and never staged succeeds by every
\* discard entry point: the file is gone from the working tree and is in none
\* of the modified, staged and untracked sets afterwards.
C15_DiscardUntracked ==
    (\/ g_res.op = "discard_changes"
     \/ g_res.op = "gsc_discard_changes" /\ g_res.fault = NoFault) =>
        \A i \in 1..Len(g_res.files) :
            LET f == g_res.files[i]
            IN  (/\ f \in Files
                 /\ g_res.before.head[f] = 0
                 /\ g_res.before.index[f] = 0
                 /\ g_res.before.work[f] # 0)
                    => g_res.success /\ g_work[f] = 0 /\ g_index[f] = 0

\* C18: unstaging the files just staged gives each of them the index entry it
\* had before it was staged, whether it was untracked, modified in the working
\* tree only, or staged in part; with it, the staged and modified sets.
C18_StageUnstageRoundTrip ==
    (/\ g_res.op \in {"unstage_file", "unstage_files"}
     /\ g_res.success
     /\ g_res.staged_from # <<>>) =>
        \A i \in 1..Len(g_res.files) :
            LET f == g_res.files[i]
            IN  g_work[f] # g_res.staged_from[f] => g_index[f] = g_res.staged_from[f]

\* C26: whatever paths a discard request names, absolute ones and ones with
\* ".." included, it deletes or overwrites no file outside the repository.
C26_DiscardStaysInRepo ==
    g_res.op = "gsc_discard_changes" => g_outside = g_res.before.outside

\* C29: a discard request for paths that get_git_status lists (modified,
\* staged, a new file added to the index, untracked) succeeds, and afterwards
\* none of them is modified or untracked.
C29_DiscardWhatStatusLists ==
    (/\ g_res.op = "gsc_discard_changes"
     /\ g_res.fault = NoFault
     /\ \A i \in 1..Len(g_res.files) :
            LET f == g_res.files[i]
            IN  /\ f \in Files
                /\ \/ g_res.before.work[f] # g_res.before.index[f]
                   \/ g_res.before.index[f] # g_res.before.head[f])
        => /\ g_res.success
           /\ \A i \in 1..Len(g_res.files) : g_work[g_res.files[i]] = g_index[g_res.files[i]]

\* C20: when a command of a request that stages, unstages or discards a list
\* of files fails or times out, the request reports a failure, runs no
\* further command, and leaves the trees as the steps before it made them.
C20_FailedStepStopsRequest ==
    (g_res.op \in {"stage_files", "unstage_files", "gsc_discard_changes"}
        /\ g_res.fault # NoFault) =>
        /\ ~g_res.success
        /\ g_res.ran = g_res.fault.at
        /\ \E k \in 0..Len(g_res.files) :
              LET steps == SubSeq(g_res.files, 1, k)
                  r == IF g_res.op = "gsc_discard_changes"
                       THEN DiscardLoop(Start(g_res.before), steps, NoFault)
                       ELSE StageFilesLoop(Start(g_res.before), steps,
                                           g_res.op = "unstage_files", NoFault)
              IN  r.http = 200 /\ r.n < g_res.fault.at
                      /\ r.index = g_index /\ r.work = g_work

\* C14: the branch listing has an entry with is_remote false for every local
\* branch, an entry with is_remote true for every branch of origin that is not
\* local, named without its origin/ prefix, and no other entry (none for
\* origin/HEAD); get_git_info lists the same names.
C14_BranchListing ==
    LET L == {BranchNames[i] : i \in {j \in 1..Len(BranchNames) : br_repo.local[j]}}
        R == {BranchNames[i] : i \in {j \in 1..Len(BranchNames) : br_repo.remote[j]}}
    IN  /\ br_branches # <<>> =>
              {<<br_branches[k].name, br_branches[k].is_remote>> : k \in 1..Len(br_branches)}
                  = {<<n, FALSE>> : n \in L} \cup {<<n, TRUE>> : n \in R \ L}
        /\ br_info # <<>> => {br_info[k] : k \in 1..Len(br_info)} = L \cup R

\* C25: without a project name in the request, the project name is the last
\* '/'-separated segment of the git URL less one trailing ".git" and nothing
\* else: a name that ends in g, i, t or a dot keeps those characters.
C25_ProjectNameFromUrl ==
    (cl_resp.code # 0 /\ cl_resp.asked = None) =>
        LET parts == Split(cl_resp.git_url, <<"/">>)
            last == parts[Len(parts)]
            suffix == <<".", "g", "i", "t">>
        IN  cl_resp.project_name =
                IF Len(last) >= 4 /\ SubSeq(last, Len(last) - 3, Len(last)) = suffix
                THEN SubSeq(last, 1, Len(last) - 4)
                ELSE last

\* C27: with two clones for one project name in flight, the clean-up of a task
\* removes no directory but one that the task's own git clone created.
C27_CleanUpOwnDirectoryOnly ==
    [][\A t \in Tasks :
          (/\ cl_task[t].pc = "exited"
           /\ cl_task'[t].pc = "done"
           /\ cl_fs' # cl_fs) => cl_fs[cl_task[t].project_name].owner = t
      ]_vars

\* C21: once a clone task has ended, the clone path tells its outcome: it holds
\* the cloned repository when the clone succeeded, and does not exist when it
\* failed, timed out or raised (and no other clone to the path succeeded).
C21_OutcomeOnDisk ==
    \A t \in Tasks :
        cl_task[t].pc = "done" =>
            LET dir == cl_fs[cl_task[t].project_name]
            IN  /\ cl_task[t].outcome = "cloned" => dir = [owner |-> t, complete |-> TRUE]
                /\ (/\ cl_task[t].outcome # "cloned"
                    /\ \A u \in Tasks \ {t} :
                          cl_task[u].project_name = cl_task[t].project_name
                              => cl_task[u].pc = "done" /\ cl_task[u].outcome # "cloned")
                        => dir = NoDir

\* C23: whatever the repository path and the content of package.json,
\* is_frontend_project returns a pair without raising, and its bool is False
\* when the path does not exist, package.json is missing or is no well-formed
\* manifest, or the scripts hold none of dev, start, serve, develop.
C23_DetectorNeverRaises ==
    pd_ret.called =>
        LET package_json == pd_repo.package_json
        IN  /\ pd_ret.raised = "none"
            /\ (\/ ~pd_repo.exists
                \/ package_json.type # "object"
                \/ package_json.scripts.type # "object"
                \/ package_json.scripts.keys \cap {"dev", "start", "serve", "develop"} = {})
                    => ~pd_ret.is_frontend

\* C5: a forced push is run only against an empty remote; once origin's
\* branch holds history, a failed push is not retried with --force.
C5_ForceOnlyOnEmptyRemote ==
    \A i \in 1..Len(o_trace) :
        o_trace[i].cmd = "push -u --force" => o_trace[i].remote = "empty"

\* C24: push_to_remote runs a normal upstream-setting push, then a forced push
\* if and only if the normal one exited non-zero, and nothing more; it returns
\* success exactly when one of the two exited zero, and otherwise the error of
\* the forced push.
C24_PushAtMostTwice ==
    o_op.name = "push_to_remote" =>
        LET t == o_trace
        IN  /\ Len(t) <= 2
            /\ Len(t) >= 1 => t[1].cmd = "push -u"
            /\ Len(t) = 2 => t[2].cmd = "push -u --force" /\ t[1].exit # 0
            /\ o_pc = "returned" =>
                  /\ t # <<>>
                  /\ t[1].exit # 0 => Len(t) = 2
                  /\ o_ret.kind = "dict"
                  /\ o_ret.success <=> \E k \in 1..Len(t) : t[k].exit = 0
                  /\ ~o_ret.success =>
                        o_ret.error = IF t[2].stderr # "" THEN <<t[2].stderr>>
                                      ELSE StrCalledProcessError("push -u --force")

\* both pushes were run and both failed
C24_BothPushesFailed ==
    /\ o_op.name = "push_to_remote"
    /\ o_pc = "returned"
    /\ Len(o_trace) = 2
    /\ o_trace[2].exit # 0
    /\ ~o_ret.success

\* C28: the commit_hash that commit_all and commit_staged return is the hash of
\* the commit their own commit step created, whatever other processes do in
\* the repository between that step and the reading of HEAD.
C28_HashOfOwnCommit ==
    (/\ o_op.name \in {"commit_all", "commit_staged"}
     /\ o_pc = "returned"
     /\ o_ret.success)
        => \E k \in 1..Len(o_trace) :
              /\ o_trace[k].cmd = "commit"
              /\ o_ret.commit_hash = Sha(o_trace[k].head)

\* C12: every git command invocation of a request returns in the end, because
\* the process exited or because its timeout elapsed.
C12_EveryInvocationReturns == (o_pc = "waiting") ~> (o_pc # "waiting")

\* C13: on a detached HEAD, where git branch --show-current prints nothing,
\* the current branch is reported as a fallback value that is not empty, no
\* exception is raised, and no push is run with the empty string as its branch.
C13_DetachedHeadFallback ==
    /\ o_op.name \in {"get_current_branch", "push_to_remote_endpoint"} => o_pc # "raised"
    /\ (o_op.name = "get_current_branch" /\ o_pc = "returned") => o_ret.value # <<>>
    /\ \A i \in 1..Len(o_trace) :
          o_trace[i].cmd \in {"push -u", "push -u --force"} => o_trace[i].arg # <<>>

\* C16: add_remote called twice in a row with one URL leaves origin configured
\* with that URL, and the second call neither removes the remote nor unsets
\* the branch's upstream.
C16_SecondAddRemoteKeepsRemote ==
    (o_op.name = "add_remote" /\ o_op.again /\ o_pc \in {"returned", "raised"}) =>
        /\ o_repo.url = o_op.url
        /\ \A i \in 1..Len(o_trace) :
              o_trace[i].cmd \notin {"remote remove", "branch --unset-upstream"}

\* the second of two add_remote calls has returned, the branch having an upstream
C16_SecondCallReturned ==
    /\ o_op.name = "add_remote"
    /\ o_op.again
    /\ o_pc = "returned"
    /\ o_repo.upstream
    /\ Len(o_trace) = 2

\* C17: when origin exists, add_remote updates its URL in place, keeping the
\* upstream, if the existing and the desired URL are equal once their
\* credentials are taken out, whatever the host; it removes and re-adds the
\* remote only if they differ without their credentials.
C17_CredentialsIgnoredForAnyHost ==
    LET CredentialFree(url) ==
            IF Find(url, <<"@">>) = 0 THEN url ELSE Https \o From(url, Find(url, <<"@">>))
    IN  (o_op.name = "add_remote" /\ Len(o_trace) >= 2 /\ o_trace[1].exit = 0) =>
            IF CredentialFree(o_trace[1].out) = CredentialFree(o_op.url)
            THEN /\ o_trace[2].cmd = "remote set-url"
                 /\ \A i \in 1..Len(o_trace) :
                       o_trace[i].cmd \notin {"remote remove", "branch --unset-upstream"}
            ELSE o_trace[2].cmd = "remote remove"

\* C9: a mutation whose git command exited non-zero returns
\* {success: false, error} and raises nothing.
C9_FailureIsAResult ==
    (/\ o_pc \in {"returned", "raised"}
     /\ o_op.name \notin {"get_file_diff", "get_current_branch", "push_to_remote_endpoint"}
     /\ Last(o_trace).exit # 0)
        => (o_pc = "returned" /\ o_ret.kind = "dict" /\ ~o_ret.success)

\* C10: the error of a failed mutation contains what git printed on stderr.
C10_ErrorCarriesStderr ==
    (/\ o_pc = "returned"
     /\ o_ret.kind = "dict"
     /\ ~o_ret.success
     /\ Last(o_trace).stderr # "")
        => \E i \in 1..Len(o_ret.error) : o_ret.error[i] = Last(o_trace).stderr

====
